---- MODULE Spec2Model ----
(***************************************************************************)
(* Model of lib/covenants/auction.js: the per-name Auction record, its     *)
(* phase function, its mutators with the paired ops/undo logs, and the     *)
(* binary encoding of the record and of each Op.                           *)
(*                                                                         *)
(* Values.  A byte string (Buffer) is a sequence of byte values.  data is  *)
(* nullable, so it is a record [null, bytes]: a Buffer of length 0 is an   *)
(* object and therefore truthy in `if (this.data)`, only null is falsy.    *)
(* An Outpoint is [hash, index].  An encoding is a sequence of cells, one  *)
(* per fixed-width integer the writer emits (u8, u32, u64, a 32-byte hash) *)
(* and one per byte of a byte string.                                      *)
(***************************************************************************)
EXTENDS Integers, Sequences, FiniteSets, TLC

VARIABLES
  rec,    \* the Auction's fields other than the two logs
  ops,    \* this.ops
  undo,   \* this.undo
  last,   \* the method called last ("new" after construction)
  out,    \* what the last query method returned (NoOut after a mutator)
  args    \* the arguments of the last mutator call (NoArgs before any)

vars == <<rec, ops, undo, last, out, args>>

(***************************************************************************)
(* Bounds of the model.                                                    *)
(***************************************************************************)
MaxOps == 3
MaxHeight == 2

(***************************************************************************)
(* Constants of auction.js.                                                *)
(***************************************************************************)
BIDDING == 0
REVEAL == 1
CLOSED == 2

SET_AUCTION == 0
SET_OWNER == 1
SET_REVOKE == 2
SET_DATA == 3
SET_RENEWAL == 4
SET_CLAIMED == 5

EMPTY == <<>>

(***************************************************************************)
(* Collaborators: protocol/consensus (ZERO_HASH), covenants/rules (the     *)
(* period lengths, in blocks; the bidding and total periods are the        *)
(* example values 5 and 15, the renewal window is scaled to 20), and       *)
(* primitives/outpoint (NULL_INDEX stands for the index 0xffffffff of the  *)
(* null outpoint).                                                         *)
(***************************************************************************)
ZERO_HASH == 0
BIDDING_PERIOD == 5
TOTAL_PERIOD == 15
RENEWAL_WINDOW == 20

NULL_INDEX == 255

Outpoint(hash, index) == [hash |-> hash, index |-> index]

NewOutpoint == Outpoint(ZERO_HASH, NULL_INDEX)

OutpointIsNull(o) == o.index = NULL_INDEX /\ o.hash = ZERO_HASH

OutpointToWriter(o) == <<o.hash, o.index>>

(***************************************************************************)
(* Input domains.                                                          *)
(***************************************************************************)
NullData == [null |-> TRUE, bytes |-> <<>>]

Bytes(b) == [null |-> FALSE, bytes |-> b]

NAMES == {<<97>>, <<98, 99>>}

OUTPOINTS == {NewOutpoint, Outpoint(1, 0)}

VALUES == {0, 1}

DATAS == {NullData, Bytes(<<>>), Bytes(<<7>>)}

HEIGHTS == 0 .. MaxHeight

(***************************************************************************)
(* Op                                                                      *)
(***************************************************************************)
Op(type, params) == [type |-> type, params |-> params]

\* The payload of a forward SET_AUCTION op is the Auction object itself, not
\* a copy: the model keeps the reference and reads it through Deref.
This == [ref |-> "this"]

Deref(r, p) == IF p = This THEN r ELSE p

(***************************************************************************)
(* Auction                                                                 *)
(***************************************************************************)
NewAuction ==
  [name |-> EMPTY, nameHash |-> ZERO_HASH, owner |-> NewOutpoint, value |-> 0,
   revoke |-> NewOutpoint, data |-> NullData, height |-> 0, renewal |-> 0,
   claimed |-> FALSE]

Inject(r, auction) ==
  [r EXCEPT !.name = auction.name, !.nameHash = auction.nameHash,
            !.owner = auction.owner, !.value = auction.value,
            !.revoke = auction.revoke, !.data = auction.data,
            !.height = auction.height, !.renewal = auction.renewal,
            !.claimed = auction.claimed]

\* A new object holding the field values of r; the Outpoints and Buffers it
\* shares with r are never changed in place.
Clone(r) == Inject(NewAuction, r)

SetNull_KeepValue(r) ==
  [r EXCEPT !.owner = NewOutpoint, !.revoke = NewOutpoint,
            !.data = NullData, !.height = 0, !.renewal = 0, !.claimed = FALSE]

SetNull_KeepRevoke(r) ==
  [r EXCEPT !.owner = NewOutpoint, !.value = 0,
            !.data = NullData, !.height = 0, !.renewal = 0, !.claimed = FALSE]

SetNull_KeepClaimed(r) ==
  [r EXCEPT !.owner = NewOutpoint, !.value = 0, !.revoke = NewOutpoint,
            !.data = NullData, !.height = 0, !.renewal = 0]

SetNull(r) ==
  [r EXCEPT !.owner = NewOutpoint, !.value = 0, !.revoke = NewOutpoint,
            !.data = NullData, !.height = 0, !.renewal = 0, !.claimed = FALSE]

Truthy(data) == ~data.null

SetAuctionUndo_NoData(r) == <<Op(SET_AUCTION, <<Clone(r)>>)>>

SetAuctionUndo_SnapshotFirst(r) ==
  <<Op(SET_AUCTION, <<Clone(r)>>)>>
    \o (IF Truthy(r.data) THEN <<Op(SET_DATA, <<r.data>>)>> ELSE <<>>)

SetAuctionUndo_Alias(r) ==
  (IF Truthy(r.data) THEN <<Op(SET_DATA, <<r.data>>)>> ELSE <<>>)
    \o <<Op(SET_AUCTION, <<This>>)>>

\* The entries setAuction pushes on undo, in order.
SetAuctionUndo(r) ==
  (IF Truthy(r.data) THEN <<Op(SET_DATA, <<r.data>>)>> ELSE <<>>)
    \o <<Op(SET_AUCTION, <<Clone(r)>>)>>

SetAuctionOps_NoData(r) == <<Op(SET_AUCTION, <<This>>)>>

SetAuctionOps_Copy(r) ==
  (IF Truthy(r.data) THEN <<Op(SET_DATA, <<NullData>>)>> ELSE <<>>)
    \o <<Op(SET_AUCTION, <<Clone(r)>>)>>

\* The entries setAuction pushes on ops, in order.
SetAuctionOps(r) ==
  (IF Truthy(r.data) THEN <<Op(SET_DATA, <<NullData>>)>> ELSE <<>>)
    \o <<Op(SET_AUCTION, <<This>>)>>

SetAuction(name, height) ==
  LET named == [rec EXCEPT !.name = name]
  IN  /\ Len(ops) + Len(SetAuctionOps(named)) <= MaxOps
      /\ undo' = undo \o SetAuctionUndo(named)
      /\ ops' = ops \o SetAuctionOps(named)
      /\ rec' = [SetNull(named) EXCEPT !.height = height, !.renewal = height]
      /\ last' = "setAuction"
      /\ args' = [name |-> name, height |-> height]
      /\ UNCHANGED out

SetOwner(owner, value) ==
  /\ Len(ops) < MaxOps
  /\ undo' = Append(undo, Op(SET_OWNER, <<rec.owner, rec.value>>))
  /\ ops' = Append(ops, Op(SET_OWNER, <<owner, value>>))
  /\ rec' = [rec EXCEPT !.owner = owner, !.value = value]
  /\ last' = "setOwner"
  /\ args' = [owner |-> owner, value |-> value]
  /\ UNCHANGED out

SetRevoke(revoke) ==
  /\ Len(ops) < MaxOps
  /\ undo' = Append(undo, Op(SET_REVOKE, <<rec.revoke>>))
  /\ ops' = Append(ops, Op(SET_REVOKE, <<revoke>>))
  /\ rec' = [rec EXCEPT !.revoke = revoke]
  /\ last' = "setRevoke"
  /\ args' = [revoke |-> revoke]
  /\ UNCHANGED out

SetData(data) ==
  /\ Len(ops) < MaxOps
  /\ undo' = Append(undo, Op(SET_DATA, <<rec.data>>))
  /\ ops' = Append(ops, Op(SET_DATA, <<data>>))
  /\ rec' = [rec EXCEPT !.data = data]
  /\ last' = "setData"
  /\ args' = [data |-> data]
  /\ UNCHANGED out

SetRenewal_AlsoHeight(renewal) ==
  /\ Len(ops) < MaxOps
  /\ undo' = Append(undo, Op(SET_RENEWAL, <<rec.renewal>>))
  /\ ops' = Append(ops, Op(SET_RENEWAL, <<renewal>>))
  /\ rec' = [rec EXCEPT !.renewal = renewal, !.height = renewal]
  /\ last' = "setRenewal"
  /\ args' = [renewal |-> renewal]
  /\ UNCHANGED out

SetRenewal(renewal) ==
  /\ Len(ops) < MaxOps
  /\ undo' = Append(undo, Op(SET_RENEWAL, <<rec.renewal>>))
  /\ ops' = Append(ops, Op(SET_RENEWAL, <<renewal>>))
  /\ rec' = [rec EXCEPT !.renewal = renewal]
  /\ last' = "setRenewal"
  /\ args' = [renewal |-> renewal]
  /\ UNCHANGED out

SetClaimed(claimed) ==
  /\ Len(ops) < MaxOps
  /\ undo' = Append(undo, Op(SET_CLAIMED, <<rec.claimed>>))
  /\ ops' = Append(ops, Op(SET_CLAIMED, <<claimed>>))
  /\ rec' = [rec EXCEPT !.claimed = claimed]
  /\ last' = "setClaimed"
  /\ args' = [claimed |-> claimed]
  /\ UNCHANGED out

(***************************************************************************)
(* Phase, expiry and locality.                                             *)
(***************************************************************************)
State_Inclusive(r, height) ==
  IF r.claimed THEN CLOSED
  ELSE IF height <= r.height + BIDDING_PERIOD THEN BIDDING
  ELSE IF height < r.height + TOTAL_PERIOD THEN REVEAL
  ELSE CLOSED

State_Unclaimed(r, height) ==
  IF height < r.height + BIDDING_PERIOD THEN BIDDING
  ELSE IF height < r.height + TOTAL_PERIOD THEN REVEAL
  ELSE CLOSED

State(r, height) ==
  IF r.claimed THEN CLOSED
  ELSE IF height < r.height + BIDDING_PERIOD THEN BIDDING
  ELSE IF height < r.height + TOTAL_PERIOD THEN REVEAL
  ELSE CLOSED

IsBidding(r, height) == State(r, height) = BIDDING

IsReveal(r, height) == State(r, height) = REVEAL

IsClosed(r, height) == State(r, height) = CLOSED

IsExpired_Strict(r, height) ==
  IF ~IsClosed(r, height) THEN FALSE
  ELSE IF height > r.renewal + RENEWAL_WINDOW THEN TRUE
  ELSE IF OutpointIsNull(r.owner) /\ OutpointIsNull(r.revoke) THEN TRUE
  ELSE FALSE

IsExpired(r, height) ==
  IF ~IsClosed(r, height) THEN FALSE
  ELSE IF height >= r.renewal + RENEWAL_WINDOW THEN TRUE
  ELSE IF OutpointIsNull(r.owner) /\ OutpointIsNull(r.revoke) THEN TRUE
  ELSE FALSE

\* A view maps each outpoint to its coin entry; getEntry returns null for an
\* outpoint the view does not hold.
NoEntry == [present |-> FALSE, height |-> 0]

Entry(height) == [present |-> TRUE, height |-> height]

GetEntry(view, prevout) == view[prevout]

IsLocal_Strict(r, view, prevout) ==
  LET entry == GetEntry(view, prevout)
  IN  IF ~entry.present THEN TRUE
      ELSE IF entry.height = -1 THEN TRUE
      ELSE entry.height > r.height

IsLocal(r, view, prevout) ==
  LET entry == GetEntry(view, prevout)
  IN  IF ~entry.present THEN TRUE
      ELSE IF entry.height = -1 THEN TRUE
      ELSE entry.height >= r.height

(***************************************************************************)
(* Encoding.  bufio's writer appends cells, its reader consumes them in    *)
(* order; a read past the end throws, which shows as ok = FALSE.           *)
(***************************************************************************)
WriteU8(value) == <<value % 256>>

\* Heights and values stay inside their 32 and 64 bits in this model.
WriteU32(value) == <<value>>

WriteU64(value) == <<value>>

WriteVarBytes(bytes) == WriteU8(Len(bytes)) \o bytes

Cell(raw, i) == IF i \in 1 .. Len(raw) THEN raw[i] ELSE -1

ReadBytes(raw, off, n) == [i \in 1 .. n |-> Cell(raw, off + i - 1)]

OutpointFromReader(raw, off) == Outpoint(Cell(raw, off), Cell(raw, off + 1))

AuctionToWriter_EmptyData(r) ==
  WriteU8(Len(r.name)) \o r.name
    \o (IF ~OutpointIsNull(r.owner)
        THEN WriteU8(1) \o OutpointToWriter(r.owner) \o WriteU64(r.value)
        ELSE WriteU8(0))
    \o (IF ~OutpointIsNull(r.revoke)
        THEN WriteU8(1) \o OutpointToWriter(r.revoke)
        ELSE WriteU8(0))
    \o (IF Truthy(r.data) /\ Len(r.data.bytes) > 0
        THEN WriteU8(1) \o WriteVarBytes(r.data.bytes)
        ELSE WriteU8(0))
    \o WriteU32(r.height) \o WriteU32(r.renewal)
    \o WriteU8(IF r.claimed THEN 1 ELSE 0)

AuctionToWriter(r) ==
  WriteU8(Len(r.name)) \o r.name
    \o (IF ~OutpointIsNull(r.owner)
        THEN WriteU8(1) \o OutpointToWriter(r.owner) \o WriteU64(r.value)
        ELSE WriteU8(0))
    \o (IF ~OutpointIsNull(r.revoke)
        THEN WriteU8(1) \o OutpointToWriter(r.revoke)
        ELSE WriteU8(0))
    \o (IF Truthy(r.data)
        THEN WriteU8(1) \o WriteVarBytes(r.data.bytes)
        ELSE WriteU8(0))
    \o WriteU32(r.height) \o WriteU32(r.renewal)
    \o WriteU8(IF r.claimed THEN 1 ELSE 0)

AuctionFromReader(raw, off) ==
  LET len == Cell(raw, off)
      nameEnd == off + 1 + (IF len < 0 THEN 0 ELSE len)
      hasOwner == Cell(raw, nameEnd) = 1
      ownerEnd == nameEnd + 1 + (IF hasOwner THEN 3 ELSE 0)
      hasRevoke == Cell(raw, ownerEnd) = 1
      revokeEnd == ownerEnd + 1 + (IF hasRevoke THEN 2 ELSE 0)
      hasData == Cell(raw, revokeEnd) = 1
      dlen == Cell(raw, revokeEnd + 1)
      dataEnd == revokeEnd + 1
                   + (IF hasData THEN 1 + (IF dlen < 0 THEN 0 ELSE dlen) ELSE 0)
      end == dataEnd + 3
  IN  [ok |-> end <= Len(raw) + 1,
       off |-> end,
       auction |->
         [name |-> ReadBytes(raw, off + 1, nameEnd - off - 1),
          nameHash |-> ZERO_HASH,
          owner |-> IF hasOwner THEN OutpointFromReader(raw, nameEnd + 1)
                    ELSE NewOutpoint,
          value |-> IF hasOwner THEN Cell(raw, nameEnd + 3) ELSE 0,
          revoke |-> IF hasRevoke THEN OutpointFromReader(raw, ownerEnd + 1)
                     ELSE NewOutpoint,
          data |-> IF hasData
                   THEN Bytes(ReadBytes(raw, revokeEnd + 2,
                                        dataEnd - revokeEnd - 2))
                   ELSE NullData,
          height |-> Cell(raw, dataEnd),
          renewal |-> Cell(raw, dataEnd + 1),
          claimed |-> Cell(raw, dataEnd + 2) = 1]]

AuctionToRaw(r) == AuctionToWriter(r)

AuctionFromRaw(raw) == AuctionFromReader(raw, 1)

\* The payload cases of Op.toWriter.
OpOwnerToWriter(owner, value) ==
  IF ~OutpointIsNull(owner)
  THEN WriteU8(1) \o OutpointToWriter(owner) \o WriteU64(value)
  ELSE WriteU8(0)

OpRevokeToWriter_NoFlag(revoke) ==
  IF ~OutpointIsNull(revoke) THEN OutpointToWriter(revoke) ELSE WriteU8(0)

OpRevokeToWriter(revoke) ==
  IF ~OutpointIsNull(revoke)
  THEN WriteU8(1) \o OutpointToWriter(revoke)
  ELSE WriteU8(0)

OpDataToWriter(data) ==
  IF Truthy(data) THEN WriteU8(1) \o WriteVarBytes(data.bytes) ELSE WriteU8(0)

\* Op.toWriter; this is the live record a forward SET_AUCTION payload refers to.
OpToWriter(this, op) ==
  WriteU8(op.type)
    \o CASE op.type = SET_AUCTION -> AuctionToWriter(Deref(this, op.params[1]))
         [] op.type = SET_OWNER -> OpOwnerToWriter(op.params[1], op.params[2])
         [] op.type = SET_REVOKE -> OpRevokeToWriter(op.params[1])
         [] op.type = SET_DATA -> OpDataToWriter(op.params[1])
         [] op.type = SET_RENEWAL -> WriteU32(op.params[1])
         [] op.type = SET_CLAIMED -> WriteU8(IF op.params[1] THEN 1 ELSE 0)

OpFromReader(raw, off) ==
  LET type == Cell(raw, off)
      flag == Cell(raw, off + 1) = 1
      dlen == Cell(raw, off + 2)
      inner == AuctionFromReader(raw, off + 1)
      Read(end, params) ==
        [ok |-> end <= Len(raw) + 1, error |-> "", off |-> end,
         op |-> Op(type, params)]
  IN  CASE type = SET_AUCTION -> Read(inner.off, <<inner.auction>>)
        [] type = SET_OWNER ->
             IF flag
             THEN Read(off + 5, <<OutpointFromReader(raw, off + 2),
                                  Cell(raw, off + 4)>>)
             ELSE Read(off + 2, <<NewOutpoint, 0>>)
        [] type = SET_REVOKE ->
             IF flag
             THEN Read(off + 4, <<OutpointFromReader(raw, off + 2)>>)
             ELSE Read(off + 2, <<NewOutpoint>>)
        [] type = SET_DATA ->
             IF flag
             THEN Read(off + 3 + (IF dlen < 0 THEN 0 ELSE dlen),
                       <<Bytes(ReadBytes(raw, off + 3,
                                         IF dlen < 0 THEN 0 ELSE dlen))>>)
             ELSE Read(off + 2, <<NullData>>)
        [] type = SET_RENEWAL -> Read(off + 2, <<Cell(raw, off + 1)>>)
        [] type = SET_CLAIMED -> Read(off + 2, <<flag>>)
        [] OTHER -> [ok |-> FALSE, error |-> "Bad op type.", off |-> off + 1,
                     op |-> Op(type, <<>>)]

OpToRaw(this, op) == OpToWriter(this, op)

OpFromRaw(raw) == OpFromReader(raw, 1)

(***************************************************************************)
(* Sizes, in bytes, and the default branches of Op: a type tag outside     *)
(* types throws 'Bad op type.'.                                            *)
(***************************************************************************)
OPTYPES ==
  {SET_AUCTION, SET_OWNER, SET_REVOKE, SET_DATA, SET_RENEWAL, SET_CLAIMED}

BadOpType == "Bad op type."

\* encoding.sizeVarlen for lengths below 253: one length byte and the bytes.
SizeVarlen(len) == 1 + len

AuctionGetSize(r) ==
  1 + Len(r.name)
    + 1 + (IF ~OutpointIsNull(r.owner) THEN 36 + 8 ELSE 0)
    + 1 + (IF ~OutpointIsNull(r.revoke) THEN 36 ELSE 0)
    + 1 + (IF Truthy(r.data) THEN SizeVarlen(Len(r.data.bytes)) ELSE 0)
    + 4 + 4
    + 1

OpSize(this, op) ==
  CASE op.type = SET_AUCTION -> 1 + AuctionGetSize(Deref(this, op.params[1]))
    [] op.type = SET_OWNER ->
         1 + 1 + (IF ~OutpointIsNull(op.params[1]) THEN 36 + 8 ELSE 0)
    [] op.type = SET_REVOKE ->
         1 + 1 + (IF ~OutpointIsNull(op.params[1]) THEN 36 ELSE 0)
    [] op.type = SET_DATA ->
         1 + 1 + (IF Truthy(op.params[1])
                  THEN SizeVarlen(Len(op.params[1].bytes)) ELSE 0)
    [] op.type = SET_RENEWAL -> 1 + 4
    [] op.type = SET_CLAIMED -> 1 + 1

OpGetSize_Default(this, op) ==
  IF op.type \in OPTYPES
  THEN [ok |-> TRUE, error |-> "", size |-> OpSize(this, op)]
  ELSE [ok |-> TRUE, error |-> "", size |-> 1]

\* Op.getSize with its default branch.
OpGetSize(this, op) ==
  IF op.type \in OPTYPES
  THEN [ok |-> TRUE, error |-> "", size |-> OpSize(this, op)]
  ELSE [ok |-> FALSE, error |-> BadOpType, size |-> 0]

\* Op.toWriter with its default branch: the type byte is written before
\* the switch throws.
OpWrite(this, op) ==
  IF op.type \in OPTYPES
  THEN [ok |-> TRUE, error |-> "", raw |-> OpToWriter(this, op)]
  ELSE [ok |-> FALSE, error |-> BadOpType, raw |-> WriteU8(op.type)]

NoOut == [q |-> "none"]

NoArgs == [none |-> TRUE]

Init ==
  /\ rec = NewAuction
  /\ ops = <<>>
  /\ undo = <<>>
  /\ last = "new"
  /\ out = NoOut
  /\ args = NoArgs

Next ==
  \/ \E name \in NAMES, height \in HEIGHTS : SetAuction(name, height)
  \/ \E owner \in OUTPOINTS, value \in VALUES : SetOwner(owner, value)
  \/ \E revoke \in OUTPOINTS : SetRevoke(revoke)
  \/ \E data \in DATAS : SetData(data)
  \/ \E renewal \in HEIGHTS : SetRenewal(renewal)
  \/ \E claimed \in BOOLEAN : SetClaimed(claimed)

Spec == Init /\ [][Next]_vars

(***************************************************************************)
(* The query methods, called on a record loaded by the driver.  The record *)
(* is any combination of field values: the mutators check nothing, so each *)
(* combination is reachable from a new record.                             *)
(***************************************************************************)
\* Heights up to the last phase change and the expiry of every record.
QHEIGHTS == 0 .. MaxHeight + RENEWAL_WINDOW + 1

ENTRIES == {NoEntry} \cup {Entry(h) : h \in -1 .. MaxHeight + 1}

VIEWS == [OUTPOINTS -> ENTRIES]

RECORDS ==
  [name : NAMES \cup {EMPTY}, nameHash : {ZERO_HASH}, owner : OUTPOINTS,
   value : VALUES, revoke : OUTPOINTS, data : DATAS, height : HEIGHTS,
   renewal : HEIGHTS, claimed : BOOLEAN]

\* The ops a mutator can push on either log of record r.
LOGGABLE(r) ==
  {Op(SET_AUCTION, <<Clone(r)>>), Op(SET_AUCTION, <<This>>)}
    \cup {Op(SET_OWNER, <<o, v>>) : o \in OUTPOINTS, v \in VALUES}
    \cup {Op(SET_REVOKE, <<o>>) : o \in OUTPOINTS}
    \cup {Op(SET_DATA, <<d>>) : d \in DATAS}
    \cup {Op(SET_RENEWAL, <<h>>) : h \in HEIGHTS}
    \cup {Op(SET_CLAIMED, <<c>>) : c \in BOOLEAN}

\* Type tags, inside types and outside it.
BADTAGS == {SET_CLAIMED + 1, 255}

TAGS == OPTYPES \cup BADTAGS

BADOPS == {Op(t, <<>>) : t \in BADTAGS}

\* The driver makes one call on the record it loaded: every query is a
\* function of the record and the arguments alone.
Query(name, result) ==
  /\ last = "load"
  /\ last' = name
  /\ out' = result
  /\ UNCHANGED <<rec, ops, undo, args>>

CallState(height) ==
  Query("state", [q |-> "state", height |-> height,
                  result |-> State(rec, height)])

CallIsBidding(height) ==
  Query("isBidding", [q |-> "isBidding", height |-> height,
                      result |-> IsBidding(rec, height)])

CallIsReveal(height) ==
  Query("isReveal", [q |-> "isReveal", height |-> height,
                     result |-> IsReveal(rec, height)])

CallIsClosed(height) ==
  Query("isClosed", [q |-> "isClosed", height |-> height,
                     result |-> IsClosed(rec, height)])

CallIsExpired(height) ==
  Query("isExpired", [q |-> "isExpired", height |-> height,
                      result |-> IsExpired(rec, height)])

CallIsLocal(view, prevout) ==
  Query("isLocal", [q |-> "isLocal", view |-> view, prevout |-> prevout,
                    result |-> IsLocal(rec, view, prevout)])

\* Auction.fromRaw(auction.toRaw())
CallRoundTrip ==
  Query("roundTrip", [q |-> "roundTrip", raw |-> AuctionToRaw(rec),
                      result |-> AuctionFromRaw(AuctionToRaw(rec))])

\* Op.fromRaw(op.toRaw())
CallOpRoundTrip(op) ==
  Query("opRoundTrip", [q |-> "opRoundTrip", op |-> op,
                        raw |-> OpToRaw(rec, op),
                        result |-> OpFromRaw(OpToRaw(rec, op))])

CallOpGetSize(op) ==
  Query("opGetSize", [q |-> "opGetSize", op |-> op,
                      result |-> OpGetSize(rec, op)])

CallOpToWriter(op) ==
  Query("opToWriter", [q |-> "opToWriter", op |-> op,
                       result |-> OpWrite(rec, op)])

\* Op.fromRaw of a type byte followed by the bytes of the record.
CallOpFromRaw(tag) ==
  Query("opFromRaw", [q |-> "opFromRaw", raw |-> <<tag>> \o AuctionToRaw(rec),
                      result |-> OpFromRaw(<<tag>> \o AuctionToRaw(rec))])

\* raw with the cell at position i replaced by cells.
Splice(raw, i, cells) ==
  SubSeq(raw, 1, i - 1) \o cells \o SubSeq(raw, i + 1, Len(raw))

FLAGBYTES == {0, 1, 2}

\* Byte strings handed to Auction.fromRaw: the encoding of r with one cell
\* set to a flag byte, or with the owner presence cell replaced by a present
\* owner holding the null outpoint.
RAWS(r) ==
  {Splice(AuctionToRaw(r), i, <<b>>) :
     i \in 1 .. Len(AuctionToRaw(r)), b \in FLAGBYTES}
    \cup {Splice(AuctionToRaw(r), Len(r.name) + 2,
                 WriteU8(1) \o OutpointToWriter(NewOutpoint) \o WriteU64(v)) :
            v \in VALUES}

\* Auction.fromRaw(raw).toRaw()
CallReencode(raw) ==
  Query("reencode",
        [q |-> "reencode", raw |-> raw, result |-> AuctionFromRaw(raw),
         again |-> IF AuctionFromRaw(raw).ok
                   THEN AuctionToRaw(AuctionFromRaw(raw).auction)
                   ELSE <<>>])

InitQuery ==
  /\ rec \in RECORDS
  /\ ops = <<>>
  /\ undo = <<>>
  /\ last = "load"
  /\ out = NoOut
  /\ args = NoArgs

NextQuery ==
  \/ \E height \in QHEIGHTS : CallState(height)
  \/ \E height \in QHEIGHTS : CallIsBidding(height)
  \/ \E height \in QHEIGHTS : CallIsReveal(height)
  \/ \E height \in QHEIGHTS : CallIsClosed(height)
  \/ \E height \in QHEIGHTS : CallIsExpired(height)
  \/ \E view \in VIEWS, prevout \in OUTPOINTS : CallIsLocal(view, prevout)
  \/ CallRoundTrip
  \/ \E op \in LOGGABLE(rec) : CallOpRoundTrip(op)
  \/ \E op \in LOGGABLE(rec) \cup BADOPS : CallOpGetSize(op)
  \/ \E op \in LOGGABLE(rec) \cup BADOPS : CallOpToWriter(op)
  \/ \E tag \in TAGS : CallOpFromRaw(tag)
  \/ \E raw \in RAWS(rec) : CallReencode(raw)

SpecQuery == InitQuery /\ [][NextQuery]_vars

(***************************************************************************)
(* Replay of the undo log by the block-disconnect driver: the entries are  *)
(* applied last-first; SET_AUCTION injects its snapshot, every other entry *)
(* assigns the field(s) it carries.                                        *)
(***************************************************************************)
ApplyOp(r, op) ==
  CASE op.type = SET_AUCTION -> Inject(r, op.params[1])
    [] op.type = SET_OWNER -> [r EXCEPT !.owner = op.params[1],
                                        !.value = op.params[2]]
    [] op.type = SET_REVOKE -> [r EXCEPT !.revoke = op.params[1]]
    [] op.type = SET_DATA -> [r EXCEPT !.data = op.params[1]]
    [] op.type = SET_RENEWAL -> [r EXCEPT !.renewal = op.params[1]]
    [] op.type = SET_CLAIMED -> [r EXCEPT !.claimed = op.params[1]]

RECURSIVE ReplayUndo(_, _)
ReplayUndo(r, log) ==
  IF log = <<>> THEN r
  ELSE ReplayUndo(ApplyOp(r, log[Len(log)]), SubSeq(log, 1, Len(log) - 1))

\* The fields the record persists (the claims' field list).
Persistent(r) ==
  [name |-> r.name, owner |-> r.owner, value |-> r.value, revoke |-> r.revoke,
   data |-> r.data, height |-> r.height, renewal |-> r.renewal,
   claimed |-> r.claimed]

MUTATORS ==
  {"setAuction", "setOwner", "setRevoke", "setData", "setRenewal", "setClaimed"}

\* How many entries a call appends to each log, given the record before it.
Appended(call, r) == IF call = "setAuction" /\ Truthy(r.data) THEN 2 ELSE 1

\* The record reports CLOSED at every height.
AllClosed(r) == \A h \in QHEIGHTS : State(r, h) = CLOSED

\* The entry a call pushed last.
Pushed(log) == log[Len(log)]

ClearsClaimed(call, op) ==
  \/ call = "setAuction"
  \/ call = "setClaimed" /\ op.params[1] = FALSE

\* The record (or op payload) holds no value without an owner.
NullOwnerNoValue(r) == OutpointIsNull(r.owner) => r.value = 0

\* The payload values of an op; a SET_AUCTION payload is compared by its
\* persistent fields.
Payload(this, op) ==
  IF op.type = SET_AUCTION
  THEN <<Persistent(Deref(this, op.params[1]))>>
  ELSE op.params

OpNullOwnerNoValue(this, op) ==
  CASE op.type = SET_AUCTION -> NullOwnerNoValue(Deref(this, op.params[1]))
    [] op.type = SET_OWNER ->
         (OutpointIsNull(op.params[1]) => op.params[2] = 0)
    [] OTHER -> TRUE

OwnerIffValue(owner, value) == OutpointIsNull(owner) <=> value = 0

\* An entry with the record a SET_AUCTION reference points at read out.
Resolved(this, op) ==
  IF op.type = SET_AUCTION
  THEN Op(op.type, <<Deref(this, op.params[1])>>)
  ELSE op

FIELDS ==
  {"name", "owner", "value", "revoke", "data", "height", "renewal", "claimed"}

\* The fields each single-field mutator assigns.
Assigned(call) ==
  CASE call = "setOwner" -> {"owner", "value"}
    [] call = "setRevoke" -> {"revoke"}
    [] call = "setData" -> {"data"}
    [] call = "setRenewal" -> {"renewal"}
    [] call = "setClaimed" -> {"claimed"}

(***************************************************************************)
(* C1: undo inverts redo.  After any sequence of mutator calls on a fresh  *)
(* record, replaying the undo log last-first gives back the record as it   *)
(* was before the sequence, in every persistent field, name included.      *)
(***************************************************************************)
C1_UndoInvertsRedo == Persistent(ReplayUndo(rec, undo)) = Persistent(NewAuction)

(***************************************************************************)
(* C2: the two logs always have the same length.                           *)
(***************************************************************************)
C2_LockStep == Len(ops) = Len(undo)

\* A setAuction call that found data and logged the extra SET_DATA pair.
C2_Witness ==
  /\ last = "setAuction"
  /\ Len(ops) = 3
  /\ ops[2].type = SET_DATA
  /\ ops[3].type = SET_AUCTION
  /\ Len(undo) = 3
  /\ Truthy(undo[3].params[1].data)

(***************************************************************************)
(* C3 as stated: every mutator call appends exactly one entry to ops and   *)
(* exactly one to undo.                                                    *)
(***************************************************************************)
C3_ExactlyOne ==
  [][Len(ops') = Len(ops) + 1 /\ Len(undo') = Len(undo) + 1]_vars

(***************************************************************************)
(* C3 amended: every mutator call appends the same number of entries to    *)
(* ops and to undo, and keeps the entries already logged; the number is    *)
(* one, except that setAuction called while data is non-null appends two   *)
(* (a SET_DATA pair, then the SET_AUCTION pair).                           *)
(***************************************************************************)
C3_AppendCount ==
  [][/\ last' \in MUTATORS
     /\ Len(ops') = Len(ops) + Appended(last', rec)
     /\ Len(undo') = Len(undo) + Appended(last', rec)
     /\ SubSeq(ops', 1, Len(ops)) = ops
     /\ SubSeq(undo', 1, Len(undo)) = undo]_vars

C3_Witness ==
  /\ last = "setAuction"
  /\ Len(undo) = 3
  /\ undo[1].type = SET_DATA
  /\ undo[2].type = SET_DATA
  /\ Truthy(undo[2].params[1])
  /\ undo[3].type = SET_AUCTION
  /\ undo[3].params[1].data = undo[2].params[1]
  /\ ops[2] = Op(SET_DATA, <<NullData>>)

(***************************************************************************)
(* C4: the phase function.  state(h) is CLOSED if claimed; otherwise       *)
(* BIDDING for h < H + biddingPeriod, REVEAL for H + biddingPeriod <= h <  *)
(* H + totalPeriod, CLOSED for h >= H + totalPeriod.  The phase never      *)
(* decreases as h grows, and exactly one of isBidding, isReveal, isClosed  *)
(* holds at each h.                                                        *)
(***************************************************************************)
C4_Phase ==
  /\ last = "isBidding" =>
       (out.result <=>
          ~rec.claimed /\ out.height < rec.height + BIDDING_PERIOD)
  /\ last = "isReveal" =>
       (out.result <=>
          /\ ~rec.claimed
          /\ rec.height + BIDDING_PERIOD <= out.height
          /\ out.height < rec.height + TOTAL_PERIOD)
  /\ last = "isClosed" =>
       (out.result <=>
          rec.claimed \/ out.height >= rec.height + TOTAL_PERIOD)
  /\ last = "state" =>
    LET h == out.height
        H == rec.height
    IN  /\ rec.claimed => out.result = CLOSED
        /\ ~rec.claimed /\ h < H + BIDDING_PERIOD => out.result = BIDDING
        /\ ~rec.claimed /\ H + BIDDING_PERIOD <= h /\ h < H + TOTAL_PERIOD
             => out.result = REVEAL
        /\ ~rec.claimed /\ h >= H + TOTAL_PERIOD => out.result = CLOSED
        /\ \A later \in QHEIGHTS :
             h <= later => out.result <= State(rec, later)
        /\ \/ IsBidding(rec, h) /\ ~IsReveal(rec, h) /\ ~IsClosed(rec, h)
           \/ ~IsBidding(rec, h) /\ IsReveal(rec, h) /\ ~IsClosed(rec, h)
           \/ ~IsBidding(rec, h) /\ ~IsReveal(rec, h) /\ IsClosed(rec, h)

C4_Witness ==
  /\ last = "state"
  /\ ~rec.claimed
  /\ rec.height > 0
  /\ out.height = rec.height + BIDDING_PERIOD
  /\ out.result = REVEAL

(***************************************************************************)
(* C5 as stated: claimed is a one-way gate; once it is true, every later   *)
(* state reports CLOSED at every height.                                   *)
(***************************************************************************)
C5_OneWay == [][rec.claimed => AllClosed(rec')]_vars

(***************************************************************************)
(* C5 amended: while claimed is true, state(h) is CLOSED at every height;  *)
(* setOwner, setRevoke, setData, setRenewal and setClaimed(true) keep      *)
(* claimed true, and only setClaimed(false) or setAuction clear it.        *)
(***************************************************************************)
C5_Gate ==
  [][/\ rec'.claimed => AllClosed(rec')
     /\ rec.claimed /\ ~ClearsClaimed(last', Pushed(ops'))
          => rec'.claimed /\ AllClosed(rec')]_vars

C5_Witness ==
  /\ last = "setOwner"
  /\ rec.claimed
  /\ ~OutpointIsNull(rec.owner)
  /\ AllClosed(rec)

(***************************************************************************)
(* C6: isExpired(h) is false whenever state(h) is not CLOSED; in CLOSED it *)
(* is true iff h >= renewal + renewalWindow or owner and revoke are both   *)
(* null.                                                                   *)
(***************************************************************************)
C6_Expiry ==
  last = "isExpired" =>
    LET h == out.height
    IN  /\ State(rec, h) # CLOSED => out.result = FALSE
        /\ State(rec, h) = CLOSED =>
             (out.result <=>
                \/ h >= rec.renewal + RENEWAL_WINDOW
                \/ OutpointIsNull(rec.owner) /\ OutpointIsNull(rec.revoke))

C6_Witness ==
  /\ last = "isExpired"
  /\ ~rec.claimed
  /\ ~OutpointIsNull(rec.owner)
  /\ out.height = rec.renewal + RENEWAL_WINDOW
  /\ out.result = TRUE

(***************************************************************************)
(* C7: isLocal is true when the view has no entry for prevout or the entry *)
(* is unconfirmed (height -1); otherwise it is true iff entry.height >=    *)
(* the record's height, so an output confirmed before the cycle began is   *)
(* never local.                                                            *)
(***************************************************************************)
C7_Local ==
  last = "isLocal" =>
    LET entry == out.view[out.prevout]
    IN  /\ ~entry.present \/ entry.height = -1 => out.result = TRUE
        /\ entry.present /\ entry.height # -1 =>
             (out.result <=> entry.height >= rec.height)
        /\ entry.present /\ entry.height # -1 /\ entry.height < rec.height
             => out.result = FALSE

C7_Witness ==
  /\ last = "isLocal"
  /\ out.view[out.prevout].present
  /\ out.view[out.prevout].height = rec.height
  /\ rec.height > 0
  /\ out.result = TRUE

(***************************************************************************)
(* C8 as stated: fromRaw(toRaw(r)) equals r in every persistent field, for *)
(* every record, including every record the mutators can reach.            *)
(***************************************************************************)
C8_RoundTrip ==
  last = "roundTrip" =>
    /\ out.result.ok
    /\ Persistent(out.result.auction) = Persistent(rec)

(***************************************************************************)
(* C8 amended: fromRaw(toRaw(r)) equals r in every persistent field for    *)
(* every record whose value is 0 when its owner is null; a record with a   *)
(* null owner and a nonzero value, which setOwner can produce, decodes     *)
(* with value 0.                                                           *)
(***************************************************************************)
C8_RoundTripOwned ==
  last = "roundTrip" =>
    /\ out.result.ok
    /\ out.result.off = Len(out.raw) + 1
    /\ NullOwnerNoValue(rec) =>
         Persistent(out.result.auction) = Persistent(rec)
    /\ ~NullOwnerNoValue(rec) =>
         Persistent(out.result.auction) = Persistent([rec EXCEPT !.value = 0])

C8_Witness ==
  /\ last = "roundTrip"
  /\ ~OutpointIsNull(rec.owner)
  /\ rec.value > 0
  /\ ~OutpointIsNull(rec.revoke)
  /\ rec.data = Bytes(<<>>)
  /\ rec.claimed
  /\ Persistent(out.result.auction) = Persistent(rec)

(***************************************************************************)
(* C9 as stated: Op.fromRaw(op.toRaw()) has the type and the payload of    *)
(* op, for each of the six variants and every payload a mutator can log.   *)
(***************************************************************************)
C9_OpRoundTrip ==
  last = "opRoundTrip" =>
    /\ out.result.ok
    /\ out.result.op.type = out.op.type
    /\ Payload(rec, out.result.op) = Payload(rec, out.op)

(***************************************************************************)
(* C9 amended: Op.fromRaw(op.toRaw()) has the type and the payload of op   *)
(* for each of the six variants and every payload a mutator can log in     *)
(* which a null owner comes with value 0; a SET_OWNER op, or the record of *)
(* a SET_AUCTION op, that pairs a null owner with a nonzero value decodes  *)
(* with value 0.                                                           *)
(***************************************************************************)
C9_OpRoundTripOwned ==
  last = "opRoundTrip" =>
    /\ out.result.ok
    /\ out.result.off = Len(out.raw) + 1
    /\ out.result.op.type = out.op.type
    /\ OpNullOwnerNoValue(rec, out.op) =>
         Payload(rec, out.result.op) = Payload(rec, out.op)

C9_Witness ==
  /\ last = "opRoundTrip"
  /\ out.op.type = SET_DATA
  /\ out.op.params[1] = Bytes(<<>>)
  /\ out.result.op = out.op

(***************************************************************************)
(* C10 as stated: in every state the mutators can reach from a new record, *)
(* owner.isNull() holds iff value == 0.                                    *)
(***************************************************************************)
C10_OwnerIffValue == OwnerIffValue(rec.owner, rec.value)

(***************************************************************************)
(* C10 amended: owner.isNull() iff value == 0 holds for a new record and   *)
(* is kept by every mutator call except a setOwner(owner, value) whose own *)
(* arguments break it (the mutators check nothing); so it holds in every   *)
(* state reached by calls in which setOwner is given a null owner exactly  *)
(* when it is given value 0.                                               *)
(***************************************************************************)
C10_OwnerIffValueKept ==
  [][/\ last' # "setOwner" /\ OwnerIffValue(rec.owner, rec.value)
          => OwnerIffValue(rec'.owner, rec'.value)
     /\ last' = "setOwner" =>
          (OwnerIffValue(rec'.owner, rec'.value)
             <=> OwnerIffValue(Pushed(ops').params[1],
                               Pushed(ops').params[2]))]_vars

C10_Witness ==
  /\ last = "setAuction"
  /\ Len(ops) = 2
  /\ ops[1].type = SET_OWNER
  /\ ~OutpointIsNull(ops[1].params[1])
  /\ ops[1].params[2] > 0
  /\ OwnerIffValue(rec.owner, rec.value)

(***************************************************************************)
(* C11: an Op whose type tag is none of the six known tags is never        *)
(* accepted: getSize, toWriter and fromReader each end in 'Bad op type.',  *)
(* and no decoding returns an Op with an unknown tag.                      *)
(***************************************************************************)
C11_BadOpType ==
  /\ last \in {"opGetSize", "opToWriter"} /\ out.op.type \notin OPTYPES =>
       ~out.result.ok /\ out.result.error = BadOpType
  /\ last \in {"opGetSize", "opToWriter"} /\ out.op.type \in OPTYPES =>
       out.result.ok
  /\ last = "opFromRaw" /\ out.raw[1] \notin OPTYPES =>
       ~out.result.ok /\ out.result.error = BadOpType
  /\ last \in {"opFromRaw", "opRoundTrip"} /\ out.result.ok =>
       out.result.op.type \in OPTYPES

C11_Witness ==
  /\ last = "opGetSize"
  /\ out.op.type = SET_CLAIMED + 1
  /\ out.result.error = BadOpType

(***************************************************************************)
(* C12: after setAuction(name, H), from every reachable state, owner and   *)
(* revoke are null, value is 0, data is null, claimed is false, height and *)
(* renewal are H, and name is the given name.                              *)
(***************************************************************************)
C12_SetAuctionPost ==
  last = "setAuction" =>
    /\ OutpointIsNull(rec.owner)
    /\ OutpointIsNull(rec.revoke)
    /\ rec.value = 0
    /\ rec.data = NullData
    /\ rec.claimed = FALSE
    /\ rec.height = args.height
    /\ rec.renewal = args.height
    /\ rec.name = args.name

C12_Witness ==
  /\ last = "setAuction"
  /\ args.height > 0
  /\ ~OutpointIsNull(Pushed(undo).params[1].owner)
  /\ ~OutpointIsNull(Pushed(undo).params[1].revoke)
  /\ Pushed(undo).params[1].value > 0
  /\ rec.value = 0

(***************************************************************************)
(* C13: a new cycle restarts at BIDDING.  Right after setAuction(name, H), *)
(* from every reachable state (closed by claimed included), the phase at   *)
(* height H is BIDDING and isExpired(H) is false.                          *)
(***************************************************************************)
C13_RestartsBidding ==
  last = "setAuction" =>
    /\ State(rec, args.height) = BIDDING
    /\ IsBidding(rec, args.height)
    /\ ~IsExpired(rec, args.height)

C13_Witness ==
  /\ last = "setAuction"
  /\ Pushed(undo).params[1].claimed
  /\ AllClosed(Pushed(undo).params[1])
  /\ State(rec, args.height) = BIDDING

(***************************************************************************)
(* C14: capture before commit.  The undo entry each mutator pushes holds   *)
(* the values the affected fields had when the call began; for setAuction  *)
(* the SET_AUCTION snapshot is the record as it was when the call began.   *)
(***************************************************************************)
C14_CaptureBeforeCommit ==
  [][LET captured == Pushed(undo')
     IN  CASE last' = "setAuction" ->
                /\ captured.type = SET_AUCTION
                /\ Persistent(captured.params[1]) = Persistent(rec)
           [] last' = "setOwner" ->
                captured = Op(SET_OWNER, <<rec.owner, rec.value>>)
           [] last' = "setRevoke" -> captured = Op(SET_REVOKE, <<rec.revoke>>)
           [] last' = "setData" -> captured = Op(SET_DATA, <<rec.data>>)
           [] last' = "setRenewal" ->
                captured = Op(SET_RENEWAL, <<rec.renewal>>)
           [] last' = "setClaimed" ->
                captured = Op(SET_CLAIMED, <<rec.claimed>>)]_vars

(***************************************************************************)
(* C15: the log shape of setAuction.  With data non-null at the call it    *)
(* appends a SET_DATA pair (undo holds the old data, ops holds null) and   *)
(* then a SET_AUCTION pair; with data null it appends the SET_AUCTION pair *)
(* alone.  The SET_AUCTION pair is the last pair either way.               *)
(***************************************************************************)
C15_SetAuctionLog ==
  [][last' = "setAuction" =>
       LET n == Len(ops)
           k == IF Truthy(rec.data) THEN 2 ELSE 1
       IN  /\ Len(ops') = n + k
           /\ Len(undo') = Len(undo) + k
           /\ Truthy(rec.data) =>
                /\ undo'[Len(undo) + 1] = Op(SET_DATA, <<rec.data>>)
                /\ ops'[n + 1] = Op(SET_DATA, <<NullData>>)
           /\ Pushed(undo').type = SET_AUCTION
           /\ Pushed(ops').type = SET_AUCTION]_vars

C15_Witness ==
  /\ last = "setAuction"
  /\ Len(ops) = 3
  /\ ops[2] = Op(SET_DATA, <<NullData>>)
  /\ undo[2] = Op(SET_DATA, <<Bytes(<<7>>)>>)
  /\ undo[3].type = SET_AUCTION
  /\ undo[3].params[1].data = Bytes(<<7>>)
  /\ ops[3].type = SET_AUCTION

(***************************************************************************)
(* C16: a logged undo entry is immutable.  Its type and the payload values *)
(* read from it stay what they were when it was pushed, whatever mutators  *)
(* are called on the live record later.                                    *)
(***************************************************************************)
C16_UndoImmutable ==
  [][/\ Len(undo') >= Len(undo)
     /\ \A i \in 1 .. Len(undo) :
          /\ undo'[i].type = undo[i].type
          /\ Resolved(rec', undo'[i]) = Resolved(rec, undo[i])]_vars

C16_Witness ==
  /\ last = "setOwner"
  /\ Len(undo) = 2
  /\ undo[1].type = SET_AUCTION
  /\ OutpointIsNull(undo[1].params[1].owner)
  /\ undo[1].params[1].height = 0
  /\ ~OutpointIsNull(rec.owner)
  /\ rec.height > 0

(***************************************************************************)
(* C17: the frame of the single-field mutators.  setOwner changes only     *)
(* owner and value, setRevoke only revoke, setData only data, setRenewal   *)
(* only renewal, setClaimed only claimed; every other persistent field and *)
(* every entry already in ops and undo stays as it was (a forward          *)
(* SET_AUCTION entry stays the same reference to the record), and the      *)
(* forward op pushed carries exactly the new value(s).                     *)
(***************************************************************************)
C17_Frame ==
  [][last' \in MUTATORS \ {"setAuction"} =>
       /\ \A f \in FIELDS \ Assigned(last') : rec'[f] = rec[f]
       /\ rec'.nameHash = rec.nameHash
       /\ SubSeq(ops', 1, Len(ops)) = ops
       /\ SubSeq(undo', 1, Len(undo)) = undo
       /\ Len(ops') = Len(ops) + 1
       /\ Pushed(ops') =
            CASE last' = "setOwner" -> Op(SET_OWNER, <<rec'.owner, rec'.value>>)
              [] last' = "setRevoke" -> Op(SET_REVOKE, <<rec'.revoke>>)
              [] last' = "setData" -> Op(SET_DATA, <<rec'.data>>)
              [] last' = "setRenewal" -> Op(SET_RENEWAL, <<rec'.renewal>>)
              [] last' = "setClaimed" -> Op(SET_CLAIMED, <<rec'.claimed>>)
       /\ \A f \in DOMAIN args' : rec'[f] = args'[f]]_vars

C17_Witness ==
  /\ last = "setRenewal"
  /\ Len(ops) = 3
  /\ ops[1].type = SET_AUCTION
  /\ rec.renewal # rec.height
  /\ rec.name # EMPTY
  /\ Pushed(ops) = Op(SET_RENEWAL, <<rec.renewal>>)

(***************************************************************************)
(* C18: forward SET_AUCTION aliasing.  The payload of every forward        *)
(* SET_AUCTION entry in ops is the live record itself, so what is read     *)
(* from it in any later state is the record's current fields, not the      *)
(* values right after the reset; the undo entry pushed with it is a        *)
(* separate snapshot, taken at the call and kept as it is.                 *)
(***************************************************************************)
C18_ForwardAlias ==
  [][\A i \in 1 .. Len(ops') :
       ops'[i].type = SET_AUCTION =>
         /\ ops'[i].params[1] = This
         /\ Persistent(Resolved(rec', ops'[i]).params[1]) = Persistent(rec')
         /\ undo'[i].type = SET_AUCTION
         /\ undo'[i].params[1] # This
         /\ i <= Len(undo) => undo'[i] = undo[i]
         /\ i > Len(undo) =>
              \A f \in FIELDS \ {"name"} : undo'[i].params[1][f] = rec[f]]_vars

C18_Witness ==
  /\ last = "setOwner"
  /\ Len(ops) = 2
  /\ ops[1] = Op(SET_AUCTION, <<This>>)
  /\ ~OutpointIsNull(Resolved(rec, ops[1]).params[1].owner)
  /\ Resolved(rec, ops[1]).params[1].value > 0
  /\ OutpointIsNull(undo[1].params[1].owner)

(***************************************************************************)
(* C19: canonical encoding.  Every byte string that Auction.fromRaw        *)
(* decodes without error re-encodes, by toRaw, to the same byte string;    *)
(* flag bytes other than 0 or 1, and a present owner holding the null      *)
(* outpoint, are not accepted as another spelling of a record.  Stated for *)
(* the byte strings the decoder reads to their end, so that bytes left     *)
(* over after the record play no part.                                     *)
(***************************************************************************)
C19_Canonical ==
  /\ last = "reencode"
  /\ out.result.ok
  /\ out.result.off = Len(out.raw) + 1
  => out.again = out.raw

====
